---- MODULE Spec2Model ----
(***************************************************************************)
(* A model of run.py, the Mapbox tile stitcher: the start-up check of the  *)
(* two credentials, generate_rectangle_map (the tile range of a bounding   *)
(* box, the sequential download/cache/paste loop, the crop and the final   *)
(* save), run as a process that may be started again over the same tiles   *)
(* directory.                                                              *)
(*                                                                         *)
(* Numbers.  Latitudes and longitudes are integers in units of 1/DegScale  *)
(* degree.  A fractional tile coordinate at a zoom is an integer number of *)
(* 1/SubAt(zoom) tile, the unit in which every x_tile is exact; at ZOOM    *)
(* the unit is 1/Sub tile, and a fractional pixel coordinate is an integer *)
(* number of 1/Sub pixel, so that floor, ceil and int() are computed, not  *)
(* assumed.                                                                *)
(*                                                                         *)
(* Environment.  os.makedirs may raise, requests.get may raise or answer   *)
(* with any of Responses, tile_img.save and final.save may raise;          *)
(* Image.new is taken to succeed.  SCALE_FACTOR is 1.0, so the resize of   *)
(* run.py:159-164 is never taken.  Boxes are called with min <= max on     *)
(* both axes.                                                              *)
(***************************************************************************)
EXTENDS Integers, Sequences, FiniteSets

\* run.py:46-47
ZOOM == 14
TILE_SIZE == 1024

\* The number of times the program is started over the same working directory.
MaxRuns == 2

\* Input coordinates are given in 1/10000 degree.
DegScale == 10 ^ 4

\* n = 2.0 ** zoom (run.py:61)
TilesAcross(zoom) == 2 ^ zoom

\* x_tile = (lon + 180) / 360 * n (run.py:63) is (lon + 180 * DegScale) * n over
\* 360 * DegScale = 2^7 * 28125 with lon in 1/DegScale degree.  Reduce(n) is the
\* part of the power of two n that cancels, and 1/SubAt(zoom) tile the unit left:
\* 1/28125 tile from zoom 7 on.
Reduce(n) == IF n >= 2 ^ 7 THEN 2 ^ 7 ELSE n
SubAt(zoom) == (360 * DegScale) \div Reduce(TilesAcross(zoom))

\* The unit of the run: run.py:97-98 projects at ZOOM
Sub == SubAt(ZOOM)

\* math.floor and math.ceil of the fraction v / Sub (run.py:101-102)
floor(v) == v \div Sub
\* Two slips in place of ceil: floor, and floor + 1
ceilAsFloor(v) == v \div Sub
ceilAsFloorPlusOne(v) == (v \div Sub) + 1
ceil(v) == -((-v) \div Sub)

\* int() of the fraction v / Sub: truncation toward zero (run.py:152-155)
int(v) == IF v >= 0 THEN v \div Sub ELSE -((-v) \div Sub)

\* The nearest whole number to (hi + lo / 1000) / d, a tie going to the even
\* one: how the float y_tile of run.py:64-67 falls on the grid of the unit
RoundDiv(hi, lo, d) ==
    LET q == hi \div d
        r == (hi % d) * 1000 + lo
    IN  IF 2 * r > d * 1000 THEN q + 1
        ELSE IF 2 * r = d * 1000 THEN q + (q % 2)
        ELSE q

\* The table below holds y_tile / n with FracBits binary places
FracBits == 16

\* (1 - log(tan(lat_rad) + 1 / cos(lat_rad)) / pi) / 2 of run.py:64-67, the part
\* of y_tile that does not depend on the zoom, tabulated at the latitudes the
\* model draws its inputs from: <<hi, lo>> stands for hi + lo / 1000 (rounded
\* down) in units of 1 / (SubAt(FracBits) * 2^FracBits).  Latitude 0 gives
\* log(tan 0 + 1 / cos 0) = log 1 = 0, hence exactly 1/2.
MercatorFraction ==
    [lat \in {0, 100, 300, 294115, 294335} |->
        CASE lat = 0      -> <<921600000, 0>>
          [] lat = 100    -> <<921548799, 999>>
          [] lat = 300    -> <<921446399, 992>>
          [] lat = 294115 -> <<763927666, 932>>
          [] lat = 294335 -> <<763798347, 426>>]

\* lat_lon_to_tile (run.py:56-69): <<x_tile, y_tile>> in 1/SubAt(zoom) tile, for
\* a zoom of 0 to FracBits.  x_tile is exact; y_tile is the tabulated fraction
\* times n, to the nearest unit.
lat_lon_to_tile(lat, lon, zoom) ==
    LET n == TilesAcross(zoom)
        x_tile == (lon + 180 * DegScale) * (n \div Reduce(n))
        y_tile == RoundDiv(MercatorFraction[lat][1], MercatorFraction[lat][2],
                           (TilesAcross(FracBits) * SubAt(FracBits))
                               \div (n * SubAt(zoom)))
    IN  <<x_tile, y_tile>>

\* The bounding boxes a run may be called with: every box with min <= max drawn
\* from a few coordinates next to (0, 0), where latitude 0 and longitude 0 fall
\* exactly on a tile boundary, and the example box of run.py:178-181.
LatsNearOrigin == {0, 100, 300}
LonsNearOrigin == {0, 100}
BBoxes ==
    {[min_lat |-> a, min_lon |-> b, max_lat |-> c, max_lon |-> d] :
        a \in LatsNearOrigin, b \in LonsNearOrigin,
        c \in LatsNearOrigin, d \in LonsNearOrigin}
    \cup {[min_lat |-> 294115, min_lon |-> -985055,
           max_lat |-> 294335, max_lon |-> -984790]}
ValidBBoxes == {b \in BBoxes : b.min_lat <= b.max_lat /\ b.min_lon <= b.max_lon}

\* os.getenv (run.py:36-37): "unset" stands for None
EnvValues == {"unset", "", "value"}

\* `not v` of run.py:39 is true of None and of the empty string
Truthy(v) == v \notin {"unset", ""}

\* A slip in place of ConfigMissing: `and` for `or`
ConfigMissingBoth(tok, sty) == ~Truthy(tok) /\ ~Truthy(sty)
\* run.py:39: if not MAPBOX_ACCESS_TOKEN or not MAPBOX_STYLE_ID
ConfigMissing(tok, sty) == ~Truthy(tok) \/ ~Truthy(sty)

\* What requests.get can return (run.py:124): a status code and whether the
\* payload decodes as an image.  Only a 200 carries a tile image.
Responses ==
    {[status |-> 200, image |-> TRUE], [status |-> 200, image |-> FALSE],
     [status |-> 204, image |-> FALSE], [status |-> 404, image |-> FALSE],
     [status |-> 503, image |-> FALSE]}
NoResponse == [status |-> 0, image |-> FALSE]

\* A slip in place of IsMissingStatus: only 404 taken as a missing tile
IsMissingStatus404(status) == status = 404
\* run.py:126: if response.status_code != 200
IsMissingStatus(status) == status # 200

\* run.py:101-106: the tile index ranges of the projected corners
TileRange(x_min, x_max, y_min, y_max) ==
    [x_start |-> floor(x_min), x_end |-> ceil(x_max),
     y_start |-> floor(y_min), y_end |-> ceil(y_max)]

NoPlan ==
    [x_min |-> 0, x_max |-> 0, y_min |-> 0, y_max |-> 0,
     x_start |-> 0, x_end |-> 0, y_start |-> 0, y_end |-> 0]

\* run.py:97-102: x_min, y_max from the south-west corner, x_max, y_min from the
\* north-east corner
Planned(b) ==
    LET sw == lat_lon_to_tile(b.min_lat, b.min_lon, ZOOM)
        ne == lat_lon_to_tile(b.max_lat, b.max_lon, ZOOM)
        r  == TileRange(sw[1], ne[1], ne[2], sw[2])
    IN  [x_min |-> sw[1], y_max |-> sw[2], x_max |-> ne[1], y_min |-> ne[2],
         x_start |-> r.x_start, x_end |-> r.x_end,
         y_start |-> r.y_start, y_end |-> r.y_end]

tiles_x(p) == p.x_end - p.x_start
tiles_y(p) == p.y_end - p.y_start
total_tiles(p) == tiles_x(p) * tiles_y(p)

\* A slip in place of LoopTiles: the inner loop stops one row early
LoopTilesShortRows(x_start, x_end, y_start, y_end) ==
    LET nx == x_end - x_start
        ny == y_end - 1 - y_start
    IN  IF nx <= 0 \/ ny <= 0 THEN << >>
        ELSE [k \in 1..(nx * ny) |->
                <<x_start + ((k - 1) \div ny), y_start + ((k - 1) % ny)>>]
\* run.py:116-117: for x in range(x_start, x_end): for y in range(y_start, y_end),
\* as the sequence of <<x, y>> in the order the loop visits them
LoopTiles(x_start, x_end, y_start, y_end) ==
    LET nx == x_end - x_start
        ny == y_end - y_start
    IN  IF nx <= 0 \/ ny <= 0 THEN << >>
        ELSE [k \in 1..(nx * ny) |->
                <<x_start + ((k - 1) \div ny), y_start + ((k - 1) % ny)>>]

\* The canvas is kept tile region by tile region: the origin of each
\* TILE_SIZE x TILE_SIZE region maps to what the region shows.
Fill == <<"fill", 0, 0>>
TileImage(x, y) == <<"tile", x, y>>
Regions(nx, ny) ==
    {<<i * TILE_SIZE, j * TILE_SIZE>> : i \in 0..(nx - 1), j \in 0..(ny - 1)}

\* Image.new("RGB", (tiles_x * TILE_SIZE, tiles_y * TILE_SIZE)) (run.py:109-112)
NewCanvas(nx, ny) == [o \in Regions(nx, ny) |-> Fill]

\* A slip in place of PasteBox: the two offsets exchanged
PasteBoxSwapped(x, y, p) ==
    <<(y - p.y_start) * TILE_SIZE, (x - p.x_start) * TILE_SIZE>>
\* run.py:140: the paste position of tile (x, y)
PasteBox(x, y, p) == <<(x - p.x_start) * TILE_SIZE, (y - p.y_start) * TILE_SIZE>>

\* stitched.paste(tile_img, box) (run.py:138-141): an opaque overwrite of the
\* region at box; what falls outside the canvas is clipped
paste(canvas, img, box) ==
    IF box \in DOMAIN canvas THEN [canvas EXCEPT ![box] = img] ELSE canvas

\* pbar.update(1) (run.py:128, 143)
pbar_update(n) == n + 1

\* A slip in place of print_warning: the warning is not printed
print_nothing(n) == n
\* print(f"Warning: missing tile ...") (run.py:127): one more warning line
print_warning(n) == n + 1

\* run.py:146-149: the crop rectangle in 1/Sub pixel
CropRect(p) ==
    [left   |-> (p.x_min - p.x_start * Sub) * TILE_SIZE,
     right  |-> (p.x_max - p.x_start * Sub) * TILE_SIZE,
     top    |-> (p.y_min - p.y_start * Sub) * TILE_SIZE,
     bottom |-> (p.y_max - p.y_start * Sub) * TILE_SIZE]
NoCrop == [left |-> 0, right |-> 0, top |-> 0, bottom |-> 0]

\* stitched.crop((int(left), int(top), int(right), int(bottom))) (run.py:151-156):
\* the size of the cropped image
CropSize(c) == [w |-> int(c.right) - int(c.left), h |-> int(c.bottom) - int(c.top)]
NoImage == [w |-> 0, h |-> 0]

VARIABLES
    pc,          \* where the process is
    token,       \* MAPBOX_ACCESS_TOKEN
    style,       \* MAPBOX_STYLE_ID
    plan,        \* x_min .. y_end of the call
    todo,        \* the tiles the loop has still to visit
    stitched,    \* the canvas
    response,    \* the response of the request in flight
    pbar,        \* the progress count
    warnings,    \* the number of missing-tile warnings printed
    requests,    \* the GETs issued in this run, in order
    results,     \* tile |-> "Success" or "Missing", what each fetch gave
    crop,        \* left, top, right, bottom
    final,       \* the size of the cropped image
    wrote,       \* the tile files written in this run
    saved,       \* whether this run wrote the output file
    tilesdir,    \* the tile files of TILES_DIR, kept from run to run
    outfile,     \* whether the output file exists
    exitStatus,  \* -1 while running, then the exit status
    error,       \* the exception that ended the run, "" if none
    runs         \* the number of runs started

vars ==
    <<pc, token, style, plan, todo, stitched, response, pbar, warnings,
      requests, results, crop, final, wrote, saved, tilesdir, outfile,
      exitStatus, error, runs>>

perRun == <<plan, todo, stitched, response, pbar, warnings, requests, results,
            crop, final, wrote, saved>>
disk == <<tilesdir, outfile>>
env == <<token, style, runs>>

EmptyFn == [t \in {} |-> "Missing"]

FreshRun ==
    /\ plan = NoPlan
    /\ todo = << >>
    /\ stitched = NewCanvas(0, 0)
    /\ response = NoResponse
    /\ pbar = 0
    /\ warnings = 0
    /\ requests = << >>
    /\ results = EmptyFn
    /\ crop = NoCrop
    /\ final = NoImage
    /\ wrote = {}
    /\ saved = FALSE
    /\ exitStatus = -1
    /\ error = ""

Init ==
    /\ pc = "start"
    /\ token \in EnvValues
    /\ style \in EnvValues
    /\ FreshRun
    /\ tilesdir = {}
    /\ outfile = FALSE
    /\ runs = 1

\* An uncaught exception, or sys.exit with a message: the process ends with
\* status 1 and everything else is left as it is; `why` is the exception and, for
\* an OSError, the file it is about
Die(why) ==
    /\ pc' = "exited"
    /\ exitStatus' = 1
    /\ error' = why

\* run.py:39-43
ConfigExit ==
    /\ pc = "start"
    /\ ConfigMissing(token, style)
    /\ Die("SystemExit")
    /\ UNCHANGED <<perRun, disk, env>>

ConfigOk ==
    /\ pc = "start"
    /\ ~ConfigMissing(token, style)
    /\ pc' = "call"
    /\ UNCHANGED <<exitStatus, error, perRun, disk, env>>

\* run.py:94: os.makedirs(TILES_DIR, exist_ok=True) raises (the directory cannot
\* be created, or a file of that name is in the way); nothing catches it
MakedirsFails ==
    /\ pc = "call"
    /\ Die("OSError: makedirs")
    /\ UNCHANGED <<perRun, disk, env>>

\* run.py:94-112: the call of generate_rectangle_map up to the loop
Plan(b) ==
    /\ pc = "call"
    /\ plan' = Planned(b)
    /\ todo' = LoopTiles(plan'.x_start, plan'.x_end, plan'.y_start, plan'.y_end)
    /\ stitched' = NewCanvas(tiles_x(plan'), tiles_y(plan'))
    /\ pc' = "fetch"
    /\ UNCHANGED <<response, pbar, warnings, requests, results, crop, final,
                   wrote, saved, exitStatus, error, disk, env>>

Key(t) == <<ZOOM, t[1], t[2]>>

\* run.py:124: requests.get raises (connection error, timeout); nothing catches it
GetRaises ==
    /\ pc = "fetch"
    /\ todo # << >>
    /\ requests' = Append(requests, Key(Head(todo)))
    /\ results' = [t \in DOMAIN results \cup {Head(todo)} |->
                     IF t = Head(todo) THEN "Missing" ELSE results[t]]
    /\ Die("ConnectionError")
    /\ UNCHANGED <<plan, todo, stitched, response, pbar, warnings, crop, final,
                   wrote, saved, disk, env>>

\* run.py:124: requests.get returns a response
GetResponds(r) ==
    /\ pc = "fetch"
    /\ todo # << >>
    /\ requests' = Append(requests, Key(Head(todo)))
    /\ results' = [t \in DOMAIN results \cup {Head(todo)} |->
                     IF t = Head(todo)
                     THEN (IF r.status = 200 /\ r.image THEN "Success" ELSE "Missing")
                     ELSE results[t]]
    /\ response' = r
    /\ pc' = "handle"
    /\ UNCHANGED <<plan, todo, stitched, pbar, warnings, crop, final,
                   wrote, saved, exitStatus, error, disk, env>>

\* run.py:126-129
HandleMissing ==
    /\ pc = "handle"
    /\ IsMissingStatus(response.status)
    /\ warnings' = print_warning(warnings)
    /\ pbar' = pbar_update(pbar)
    /\ todo' = Tail(todo)
    /\ response' = NoResponse
    /\ pc' = "fetch"
    /\ UNCHANGED <<plan, stitched, requests, results, crop, final, wrote, saved,
                   exitStatus, error, disk, env>>

\* run.py:131: Image.open raises on a payload that is no image
HandleUndecodable ==
    /\ pc = "handle"
    /\ ~IsMissingStatus(response.status)
    /\ ~response.image
    /\ Die("UnidentifiedImageError")
    /\ UNCHANGED <<perRun, disk, env>>

\* run.py:134-135: tile_img.save raises; nothing catches it
HandleCacheFail ==
    /\ pc = "handle"
    /\ ~IsMissingStatus(response.status)
    /\ response.image
    /\ Die("OSError: tiles")
    /\ UNCHANGED <<perRun, disk, env>>

\* run.py:131-143: the tile is written to the tiles directory and pasted
HandleTile ==
    /\ pc = "handle"
    /\ ~IsMissingStatus(response.status)
    /\ response.image
    /\ tilesdir' = tilesdir \cup {Key(Head(todo))}
    /\ wrote' = wrote \cup {Key(Head(todo))}
    /\ stitched' = paste(stitched, TileImage(Head(todo)[1], Head(todo)[2]),
                         PasteBox(Head(todo)[1], Head(todo)[2], plan))
    /\ pbar' = pbar_update(pbar)
    /\ todo' = Tail(todo)
    /\ response' = NoResponse
    /\ pc' = "fetch"
    /\ UNCHANGED <<plan, warnings, requests, results, crop, final, saved,
                   exitStatus, error, outfile, env>>

\* run.py:146-164: after the loop; SCALE_FACTOR is 1.0, so no resize
Crop ==
    /\ pc = "fetch"
    /\ todo = << >>
    /\ crop' = CropRect(plan)
    /\ final' = CropSize(crop')
    /\ pc' = "save"
    /\ UNCHANGED <<plan, todo, stitched, response, pbar, warnings, requests,
                   results, wrote, saved, exitStatus, error, disk, env>>

\* run.py:166-169: final.save writes the output file, and the process ends
SaveOk ==
    /\ pc = "save"
    /\ outfile' = TRUE
    /\ saved' = TRUE
    /\ pc' = "exited"
    /\ exitStatus' = 0
    /\ UNCHANGED <<plan, todo, stitched, response, pbar, warnings, requests,
                   results, crop, final, wrote, error, tilesdir, env>>

\* run.py:166: final.save raises
SaveFails ==
    /\ pc = "save"
    /\ Die("OSError: output")
    /\ UNCHANGED <<perRun, disk, env>>

\* The program is started again: a new process over the same directory
Restart ==
    /\ pc = "exited"
    /\ runs < MaxRuns
    /\ runs' = runs + 1
    /\ pc' = "start"
    /\ token' \in EnvValues
    /\ style' \in EnvValues
    /\ plan' = NoPlan
    /\ todo' = << >>
    /\ stitched' = NewCanvas(0, 0)
    /\ response' = NoResponse
    /\ pbar' = 0
    /\ warnings' = 0
    /\ requests' = << >>
    /\ results' = EmptyFn
    /\ crop' = NoCrop
    /\ final' = NoImage
    /\ wrote' = {}
    /\ saved' = FALSE
    /\ exitStatus' = -1
    /\ error' = ""
    /\ UNCHANGED disk

Next ==
    \/ ConfigExit
    \/ ConfigOk
    \/ MakedirsFails
    \/ \E b \in ValidBBoxes : Plan(b)
    \/ GetRaises
    \/ \E r \in Responses : GetResponds(r)
    \/ HandleMissing
    \/ HandleUndecodable
    \/ HandleCacheFail
    \/ HandleTile
    \/ Crop
    \/ SaveOk
    \/ SaveFails
    \/ Restart

Spec == Init /\ [][Next]_vars


(***************************************************************************)
(* The properties.                                                         *)
(***************************************************************************)

\* The tiles of the planned range [x_start, x_end) x [y_start, y_end)
Grid == {<<x, y>> : x \in plan.x_start..(plan.x_end - 1),
                    y \in plan.y_start..(plan.y_end - 1)}

\* The pixel offset of the canvas region of tile t
Origin(t) == <<(t[1] - plan.x_start) * TILE_SIZE, (t[2] - plan.y_start) * TILE_SIZE>>

\* The tiles the loop has not yet finished with
Pending == {todo[i] : i \in 1..Len(todo)}

\* generate_rectangle_map has been called and has planned its range
InCall ==
    \/ pc \in {"fetch", "handle", "save"}
    \/ (pc = "exited" /\ error \notin {"SystemExit", "OSError: makedirs"})

\* The run has left the loop and computed the crop
ReachedCrop ==
    pc = "save" \/ (pc = "exited" /\ (exitStatus = 0 \/ error = "OSError: output"))

Requested == {requests[i] : i \in 1..Len(requests)}

\* C1: a response whose status is not 2xx ends nothing but that tile's turn: the
\* loop goes on to the next tile with the canvas and the tiles directory as they
\* were; and a run in which every request so far was answered that way ends, if
\* it ends, with status 0 unless the final save failed.
C1_NonOkResponseNotFatal ==
    /\ [][(pc = "handle" /\ response.status \notin 200..299)
             => /\ pc' = "fetch"
                /\ exitStatus' = -1
                /\ error' = ""
                /\ todo' = Tail(todo)
                /\ stitched' = stitched
                /\ tilesdir' = tilesdir]_vars
    /\ []((pc = "exited" /\ InCall /\ warnings = Len(requests))
             => (exitStatus = 0 \/ error = "OSError: output"))

\* A run of two tiles or more, every one answered with a non-200 status, that
\* ended with status 0
C1_Witness ==
    /\ pc = "exited"
    /\ exitStatus = 0
    /\ saved
    /\ total_tiles(plan) >= 2
    /\ warnings = total_tiles(plan)
    /\ Len(requests) = total_tiles(plan)

\* C2: no run is ended by a tile's network error or by a 200 response whose
\* payload is no image.
C2_FetchErrorAbsorbed ==
    pc = "exited" => error \notin {"ConnectionError", "UnidentifiedImageError"}

\* C3: no run is ended by a failure to write a tile to the tiles directory.
C3_CacheWriteErrorAbsorbed ==
    pc = "exited" => error # "OSError: tiles"

\* C4: with a credential unset or empty, the process goes from the start straight
\* to an exit with a non-zero status, and the run has issued no request, written
\* no tile file and not written the output file.
C4_MissingCredentialsAbort ==
    (token \in {"unset", ""} \/ style \in {"unset", ""})
        => /\ pc \in {"start", "exited"}
           /\ (pc = "exited" => exitStatus > 0)
           /\ requests = << >>
           /\ wrote = {}
           /\ ~saved

\* A run that found the style id empty, the token being set, and has exited
C4_Witness ==
    /\ pc = "exited"
    /\ token = "value"
    /\ style = ""
    /\ exitStatus = 1

\* C5: no request is issued for a tile whose file is in the tiles directory.
C5_CachedTileNotFetched ==
    pc = "handle" => requests[Len(requests)] \notin tilesdir

\* C6: once the loop is over, the number of missing-tile warnings printed is the
\* number of tiles of the range whose fetch gave Missing.
C6_MissingCount ==
    ReachedCrop =>
        warnings = Cardinality({t \in Grid : t \in DOMAIN results
                                              /\ results[t] = "Missing"})

\* A finished run with some tiles missing and some not
C6_Witness ==
    /\ pc = "exited"
    /\ exitStatus = 0
    /\ warnings > 0
    /\ warnings < total_tiles(plan)

\* C7: for projected corners with x_min < x_max and y_min < y_max the range
\* contains the fractional box and the crop rectangle lies in the canvas:
\* 0 <= left < right <= tiles_x * TILE_SIZE, 0 <= top < bottom <= tiles_y * TILE_SIZE
\* (the rectangle is in 1/Sub pixel).
C7_CropRectBounds ==
    (ReachedCrop /\ plan.x_min < plan.x_max /\ plan.y_min < plan.y_max)
        => /\ plan.x_start * Sub <= plan.x_min
           /\ plan.x_end * Sub >= plan.x_max
           /\ plan.y_start * Sub <= plan.y_min
           /\ plan.y_end * Sub >= plan.y_max
           /\ 0 <= crop.left
           /\ crop.left < crop.right
           /\ crop.right <= (plan.x_end - plan.x_start) * TILE_SIZE * Sub
           /\ 0 <= crop.top
           /\ crop.top < crop.bottom
           /\ crop.bottom <= (plan.y_end - plan.y_start) * TILE_SIZE * Sub

\* A non-degenerate box whose west edge and south edge lie on tile boundaries:
\* left is 0 and bottom is the canvas height
C7_Witness ==
    /\ pc = "save"
    /\ plan.x_min < plan.x_max
    /\ plan.y_min < plan.y_max
    /\ crop.left = 0
    /\ crop.bottom = (plan.y_end - plan.y_start) * TILE_SIZE * Sub
    /\ crop.right < (plan.x_end - plan.x_start) * TILE_SIZE * Sub

\* C8 as stated: every box whose projected corners coincide in x or in y is
\* given a range of at least one tile each way.
C8_DegenerateAtLeastOneTile ==
    (InCall /\ (plan.x_min = plan.x_max \/ plan.y_min = plan.y_max))
        => (plan.x_end > plan.x_start /\ plan.y_end > plan.y_start)

\* C8, amended: along an axis on which the projected corners coincide the range
\* is one tile when the coordinate is not a whole number of tiles, and empty
\* when it lies exactly on a tile boundary.
C8_DegenerateRange ==
    InCall =>
        /\ plan.x_min = plan.x_max =>
             plan.x_end - plan.x_start = (IF plan.x_min % Sub = 0 THEN 0 ELSE 1)
        /\ plan.y_min = plan.y_max =>
             plan.y_end - plan.y_start = (IF plan.y_min % Sub = 0 THEN 0 ELSE 1)

\* A box degenerate in x on a tile boundary and degenerate in y off one
C8_Witness ==
    /\ pc = "save"
    /\ plan.x_min = plan.x_max
    /\ plan.x_min % Sub = 0
    /\ plan.x_end = plan.x_start
    /\ plan.y_min = plan.y_max
    /\ plan.y_min % Sub # 0
    /\ plan.y_end = plan.y_start + 1

\* C9: when the crop is reached every tile of the range has been requested
\* exactly once and nothing else has, the progress count is the number of tiles,
\* and no tile is left to do.
C9_AllTilesFetchedOnce ==
    ReachedCrop =>
        /\ Requested = {<<ZOOM, t[1], t[2]>> : t \in Grid}
        /\ Len(requests) = Cardinality(Grid)
        /\ Len(requests) = (plan.x_end - plan.x_start) * (plan.y_end - plan.y_start)
        /\ pbar = Len(requests)
        /\ todo = << >>

\* The example box, 3 x 2 tiles, at the crop
C9_Witness ==
    /\ pc = "save"
    /\ plan.x_end - plan.x_start = 3
    /\ plan.y_end - plan.y_start = 2
    /\ Len(requests) = 6
    /\ pbar = 6

\* C10: throughout the call the canvas is made of the regions of the range, and
\* the region of tile t shows t when t's fetch gave Success and the loop is done
\* with t, and the default fill otherwise.
C10_CanvasRegions ==
    InCall =>
        /\ DOMAIN stitched = {Origin(t) : t \in Grid}
        /\ \A t \in Grid :
              stitched[Origin(t)] =
                 IF t \notin Pending /\ t \in DOMAIN results /\ results[t] = "Success"
                 THEN <<"tile", t[1], t[2]>>
                 ELSE <<"fill", 0, 0>>

\* A finished loop over two tiles or more with one tile pasted off the canvas
\* origin and another tile missing
C10_Witness ==
    /\ pc = "save"
    /\ \E t \in Grid : Origin(t) # <<0, 0>> /\ stitched[Origin(t)] = <<"tile", t[1], t[2]>>
    /\ \E t \in Grid : results[t] = "Missing" /\ stitched[Origin(t)] = <<"fill", 0, 0>>

====
